---- MODULE Spec2Model ----
(***************************************************************************)
(* Model of the service watcher (src/src/service-watcher.go): the startup  *)
(* check of the global authentication plugin and the reconciliation loop   *)
(* of main, which on every timer tick walks the labelled containers of the *)
(* container runtime, registers or removes each in the API gateway, and    *)
(* then makes a reverse search for gateway targets of deleted containers.  *)
(*                                                                         *)
(* The container runtime and the gateway are the environment: every call   *)
(* to them may fail.  Strings that the code takes apart (gateway targets,  *)
(* hostnames) are sequences of characters.                                 *)
(*                                                                         *)
(* pc is the place of main: "start" (line 17), "wait" (the select of line  *)
(* 54), "containers" (the range loop of line 71), "reverse" (line 131),    *)
(* "upstreams" (line 140), "targets" (the range loop of line 144) and      *)
(* "crashed" (a panic).                                                    *)
(*                                                                         *)
(* The environment of the model: two containers with distinct hostnames,   *)
(* listed in the order of their IDs; the runtime changes only while main   *)
(* waits for a tick, a container that vanishes during a pass being a       *)
(* failing inspection; a failing call leaves the gateway as it was.        *)
(* utils.RegisterContainer and utils.RemoveContainer are not part of the   *)
(* file and are modelled by their contract.                                *)
(***************************************************************************)
EXTENDS Integers, Sequences, FiniteSets, TLC

(* ------------------------------ bounds -------------------------------- *)

\* timer ticks that main takes in one behaviour
MaxTicks == 2

\* changes of the container runtime made by its operators in one behaviour
MaxEnvChanges == 1

\* calls to the runtime and the gateway that fail in one behaviour
MaxFailures == 1

(* ------------------------- the container runtime ---------------------- *)

\* container IDs, in the order a listing returns them
ContainerIDs == <<"c1", "c2">>

Containers == {ContainerIDs[i] : i \in 1..Len(ContainerIDs)}

\* Config.Hostname of a container: distinct containers have distinct hostnames
Hostname(id) == IF id = "c1" THEN <<"h", "1">> ELSE <<"h", "2">>

MarkerLabel == "wisdom-oss.isService"

NameLabel == "wisdom-oss.service.name"

UpstreamLabel == "wisdom-oss.service.upstream-name"

PathLabel == "wisdom-oss.service.path"

\* Config.Labels of the containers of the model
FullLabels(marker) ==
    (MarkerLabel :> marker) @@ (NameLabel :> "svc") @@ (UpstreamLabel :> "up")
        @@ (PathLabel :> "/api")

NoPathLabels ==
    (MarkerLabel :> "true") @@ (NameLabel :> "svc") @@ (UpstreamLabel :> "up")

NoLabels == [k \in {} |-> ""]

LabelSets ==
    {FullLabels("true"), FullLabels("false"), FullLabels("yes"), NoPathLabels, NoLabels}

\* State.Status
Statuses == {"running", "exited"}

\* State.Health: <<>> is the nil pointer, <<s>> a Health with Status s
Healths == {<<>>, <<"starting">>, <<"healthy">>, <<"unhealthy">>, <<"degraded">>}

\* what an inspection returns about a container; the health check of a container
\* that has exited last reported healthy or unhealthy
ContainerJSON ==
    {info \in [Labels : LabelSets, Status : Statuses, Health : Healths] :
        info.Status = "exited" => info.Health \in {<<>>, <<"healthy">>, <<"unhealthy">>}}

\* a container slot of the runtime: <<>> when no such container exists
Slots == {<<>>} \cup {<<info>> : info \in ContainerJSON}

(* ------------------------------ helpers ------------------------------- *)

\* utils.MapHasKey
MapHasKey(m, key) == key \in DOMAIN m

\* a Go map index: the zero value for a missing key
Label(m, key) == IF key \in DOMAIN m THEN m[key] ELSE ""

\* strconv.ParseBool: <<value, err>>
ParseBool(str) ==
    IF str \in {"1", "t", "T", "TRUE", "true", "True"} THEN <<TRUE, FALSE>>
    ELSE IF str \in {"0", "f", "F", "FALSE", "false", "False"} THEN <<FALSE, FALSE>>
    ELSE <<FALSE, TRUE>>

\* utils.ArrayContains
ArrayContains(array, x) == \E i \in 1..Len(array) : array[i] = x

\* strings.Split(s, sep)[0]: the text before the first separator
RECURSIVE FirstPart(_, _)
FirstPart(s, sep) ==
    IF s = <<>> \/ Head(s) = sep THEN <<>> ELSE <<Head(s)>> \o FirstPart(Tail(s), sep)

\* the elements of a sequence
Range(s) == {s[i] : i \in 1..Len(s)}

\* a set as a sequence, in some order
RECURSIVE SetToSeq(_)
SetToSeq(S) ==
    IF S = {} THEN <<>>
    ELSE LET x == CHOOSE y \in S : TRUE IN <<x>> \o SetToSeq(S \ {x})

(* ------------------------------ the gateway --------------------------- *)

\* the tag of the list options of the reverse search
ManagedTag == "wisdom"

AuthPluginName == "kong-internal-db-auth"

\* the plugin that main creates: bound to no service and no route
GlobalAuthPlugin == [Name |-> AuthPluginName, Service |-> <<>>, Route |-> <<>>]

\* the authentication plugin bound to one service
ScopedAuthPlugin == [Name |-> AuthPluginName, Service |-> <<"svc">>, Route |-> <<>>]

\* the target string of a container: its hostname and the port
TargetOf(hostname) == hostname \o <<":", "8", "0">>

Upstream(name, tags) == [Name |-> name, Tags |-> tags]

Target(upstream, target, tags) == [Upstream |-> upstream, Target |-> target, Tags |-> tags]

\* structs.GatewayConfiguration
GatewayConfiguration(labels) ==
    [ServiceName |-> Label(labels, NameLabel),
     UpstreamName |-> Label(labels, UpstreamLabel),
     ServicePath |-> Label(labels, PathLabel)]

ZeroConfiguration == [ServiceName |-> "", UpstreamName |-> "", ServicePath |-> ""]

\* the upstreams and targets that exist when the watcher starts: <<upstreams, targets>>
InitGateways ==
    LET up == Upstream("up", {ManagedTag})
        legacy == Upstream("legacy", {})
        t1 == Target("up", TargetOf(Hostname("c1")), {ManagedTag})
        t2 == Target("up", TargetOf(Hostname("c2")), {ManagedTag})
        foreign == Target("up", TargetOf(Hostname("c1")), {})
        old == Target("legacy", TargetOf(Hostname("c1")), {ManagedTag})
        pool == Upstream("pool", {ManagedTag})
        p2 == Target("pool", TargetOf(Hostname("c2")), {ManagedTag})
    IN  {<<{}, {}>>,
         <<{up}, {t1}>>,
         <<{up, pool}, {t1, p2}>>,
         <<{up}, {t2, foreign}>>,
         <<{up, legacy}, {t1, old}>>}

InitPlugins == {<<>>, <<GlobalAuthPlugin>>, <<ScopedAuthPlugin>>}

(* ------------------------------- state -------------------------------- *)

VARIABLES
    runtime,             \* container ID -> slot: the containers of the runtime
    plugins,             \* gateway: the plugin instances, in creation order
    services,            \* gateway: names of the services
    routes,              \* gateway: names of the routes
    upstreams,           \* gateway: the upstreams
    targets,             \* gateway: the targets
    pc,                  \* where main is
    pending,             \* ticks in ticker.C
    ticks,               \* ticks main has taken from ticker.C
    changes,             \* changes made to the runtime
    failures,            \* calls that have failed
    queue,               \* containers the range loop of line 71 has yet to take
    containerHostNames,  \* the slice of line 132
    upstreamQueue,       \* upstreams the range loop of line 144 has yet to take
    log,                 \* the calls of the last pass, while the runtime is as that
                         \* pass found it (history)
    deleted,             \* the targets that pass deleted in its reverse search (history)
    failedAt             \* the tick of the last pass in which a listing of the reverse
                         \* search failed at the gateway, 0 when none did (history)

gateway == <<plugins, services, routes, upstreams, targets>>

local == <<queue, containerHostNames, upstreamQueue>>

history == <<log, deleted, failedAt>>

vars == <<runtime, gateway, pc, pending, ticks, changes, failures, local, history>>

Event(op, id, ok, cfg) == [op |-> op, id |-> id, ok |-> ok, cfg |-> cfg]

Call(op, id, ok) == Event(op, id, ok, ZeroConfiguration)

\* n more calls fail
Failing(n) == failures + n <= MaxFailures /\ failures' = failures + n

\* the outcome of one call: it succeeds, or it fails
Outcome(ok) == Failing(IF ok THEN 0 ELSE 1)

Exists(id) == runtime[id] # <<>>

Info(id) == runtime[id][1]

(* --------------------- utils: register and remove --------------------- *)

\* utils.RegisterContainer: the service, the upstream, the route and the target
\* of the container exist afterwards; each is created only when absent

\* RegisterTargets without the look for the target: it is created in every call
RegisterTargets_Always(tgts, cfg, hostname) ==
    tgts \cup {Target(cfg.UpstreamName, TargetOf(hostname), {ManagedTag})}

RegisterServices(svcs, cfg) == svcs \cup {cfg.ServiceName}

RegisterRoutes(rts, cfg) == rts \cup {[Service |-> cfg.ServiceName, Path |-> cfg.ServicePath]}

RegisterUpstreams(ups, cfg) ==
    IF \E u \in ups : u.Name = cfg.UpstreamName THEN ups
    ELSE ups \cup {Upstream(cfg.UpstreamName, {ManagedTag})}

RegisterTargets(tgts, cfg, hostname) ==
    IF \E t \in tgts : t.Upstream = cfg.UpstreamName /\ t.Target = TargetOf(hostname)
    THEN tgts
    ELSE tgts \cup {Target(cfg.UpstreamName, TargetOf(hostname), {ManagedTag})}

\* RemoveTargets without the look at the target string: the upstream loses
\* every target
RemoveTargets_Upstream(tgts, cfg, hostname) ==
    {t \in tgts : t.Upstream # cfg.UpstreamName}

\* utils.RemoveContainer: the target of the container under its upstream is
\* absent afterwards
RemoveTargets(tgts, cfg, hostname) ==
    {t \in tgts : ~(t.Upstream = cfg.UpstreamName /\ t.Target = TargetOf(hostname))}

(* ------------------------------- startup ------------------------------ *)

\* lines 30-37: is a global instance of the authentication plugin listed
AuthEnabled(listed) ==
    \E i \in 1..Len(listed) :
        /\ listed[i].Name = AuthPluginName
        /\ listed[i].Service = <<>>
        /\ listed[i].Route = <<>>

\* AfterCreateError for a watcher that gives up when the plugin is not created
AfterCreateError_Fatal == "crashed"

\* lines 48-50: the error of Plugins.Create is logged as a warning, and main
\* goes on to the loop
AfterCreateError == "wait"

\* lines 29-51: the check of the authentication plugin, then the loop is entered;
\* the error of Plugins.ListAll is dropped and its result is then empty
AuthGuardian ==
    /\ pc = "start"
    /\ \E listOk \in BOOLEAN, createOk \in BOOLEAN :
        LET listed == IF listOk THEN plugins ELSE <<>>
        IN  /\ AuthEnabled(listed) => createOk
            /\ Failing((IF listOk THEN 0 ELSE 1) + (IF createOk THEN 0 ELSE 1))
            /\ plugins' = IF ~AuthEnabled(listed) /\ createOk
                           THEN Append(plugins, GlobalAuthPlugin)
                           ELSE plugins
            /\ pc' = IF ~AuthEnabled(listed) /\ ~createOk THEN AfterCreateError
                      ELSE "wait"
    /\ UNCHANGED <<runtime, services, routes, upstreams, targets, pending, ticks,
                   changes, local, history>>

\* line 19: the channel of a ticker holds one tick
TickerBuffer == 1

\* Sent for a channel without a bound: every tick is queued
Sent_Queued(n) == n + 1

\* the ticks in the channel after one more is sent: a tick that finds the
\* channel full is dropped
Sent(n) == IF n < TickerBuffer THEN n + 1 ELSE n

\* line 19: the ticker sends a tick
TimerFire ==
    /\ pc # "start"
    /\ ticks < MaxTicks
    /\ pending' = Sent(pending)
    /\ UNCHANGED <<runtime, gateway, pc, ticks, changes, failures, local, history>>

(* ------------------------ the per-container pass ---------------------- *)

\* lines 26-27, 57-60: the containers that carry the marker label, running or not
ServiceContainers ==
    SelectSeq(ContainerIDs, LAMBDA id : Exists(id) /\ MapHasKey(Info(id).Labels, MarkerLabel))

\* line 63: where main goes when the listing fails
AfterListError == "wait"

\* line 68: where main goes when the listing is empty
AfterEmptyList == "wait"

\* line 78: what is left of the range loop when an inspection fails
AfterInspectError(rest) == <<>>

\* NotMarked without the test of line 87
NotMarked_ErrorOnly(labels) == ParseBool(Label(labels, MarkerLabel))[2]

\* lines 81-90: the container is skipped on account of its marker label
NotMarked(labels) ==
    LET parsed == ParseBool(Label(labels, MarkerLabel))
    IN  parsed[2] \/ ~parsed[1]

\* lines 93-101: the container is skipped for want of a configuration label;
\* err is the error of line 81, which is nil here
ConfigurationMissing(labels, err) ==
    /\ err
    /\ \/ ~MapHasKey(labels, NameLabel)
       \/ ~MapHasKey(labels, UpstreamLabel)
       \/ ~MapHasKey(labels, PathLabel)

\* ActionFor with line 115 testing for "healthy" instead
ActionFor_HealthyOnly(status, health) ==
    IF status = "running"
    THEN IF health = <<>> THEN "register"
         ELSE IF health[1] = "healthy" THEN "register" ELSE "remove"
    ELSE "remove"

\* lines 108-125: what is done with the container
ActionFor(status, health) ==
    IF status = "running"
    THEN IF health = <<>> THEN "register"
         ELSE IF health[1] = "unhealthy" THEN "remove" ELSE "register"
    ELSE "remove"

\* lines 55-70: a tick is taken and the service containers are listed
Tick ==
    /\ pc = "wait"
    /\ pending > 0
    /\ pending' = pending - 1
    /\ ticks' = ticks + 1
    /\ deleted' = {}
    /\ containerHostNames' = <<>>
    /\ upstreamQueue' = <<>>
    /\ \E ok \in BOOLEAN :
        LET possibleServiceContainers == IF ok THEN ServiceContainers ELSE <<>>
        IN  /\ Outcome(ok)
            /\ log' = <<Call("list", "", ok)>>
            /\ queue' = possibleServiceContainers
            /\ pc' = IF ~ok THEN AfterListError
                     ELSE IF Len(possibleServiceContainers) = 0 THEN AfterEmptyList
                     ELSE "containers"
    /\ UNCHANGED <<runtime, gateway, changes, failedAt>>

\* where main goes after one container of the range loop
NextContainer(rest) == IF rest = <<>> THEN "reverse" ELSE "containers"

\* lines 71-126: one container of the range loop
ProcessContainer ==
    /\ pc = "containers"
    /\ queue # <<>>
    /\ LET id == Head(queue)
           inspect == Call("inspect", id, TRUE)
       IN  \/ \* line 76: the inspection fails
              /\ Outcome(FALSE)
              /\ log' = Append(log, Call("inspect", id, FALSE))
              /\ queue' = AfterInspectError(Tail(queue))
              /\ pc' = NextContainer(queue')
              /\ UNCHANGED gateway
           \/ /\ Exists(id)
              /\ LET containerInformation == Info(id)
                     labels == containerInformation.Labels
                     gatewayConfig == GatewayConfiguration(labels)
                     op == ActionFor(containerInformation.Status,
                                     containerInformation.Health)
                 IN  /\ queue' = Tail(queue)
                     /\ pc' = NextContainer(queue')
                     /\ IF NotMarked(labels) \/ ConfigurationMissing(labels, FALSE)
                        THEN /\ log' = log \o <<inspect, Call("skip", id, TRUE)>>
                             /\ UNCHANGED <<gateway, failures>>
                        ELSE \E ok \in BOOLEAN :
                               /\ Outcome(ok)
                               /\ log' = log \o <<inspect, Event(op, id, ok, gatewayConfig)>>
                               /\ IF ~ok THEN UNCHANGED gateway
                                  ELSE IF op = "register"
                                  THEN /\ services' = RegisterServices(services, gatewayConfig)
                                       /\ routes' = RegisterRoutes(routes, gatewayConfig)
                                       /\ upstreams' = RegisterUpstreams(upstreams, gatewayConfig)
                                       /\ targets' = RegisterTargets(targets, gatewayConfig,
                                                                     Hostname(id))
                                       /\ UNCHANGED plugins
                                  ELSE /\ targets' = RemoveTargets(targets, gatewayConfig,
                                                                   Hostname(id))
                                       /\ UNCHANGED <<plugins, services, routes, upstreams>>
    /\ UNCHANGED <<runtime, pending, ticks, changes, containerHostNames, upstreamQueue,
                   deleted, failedAt>>

(* --------------------------- the reverse search ----------------------- *)

\* line 131: every container of the runtime, labelled or not, running or not
AllContainers == SelectSeq(ContainerIDs, Exists)

\* lines 132-136: the hostnames of the listed containers
RECURSIVE HostNames(_)
HostNames(containers) ==
    IF containers = <<>> THEN <<>>
    ELSE <<Hostname(Head(containers))>> \o HostNames(Tail(containers))

\* lines 134-135: the error of the inspection is dropped and the Config of the
\* empty result is nil, so that reading its Hostname panics
AfterReverseInspectError == "crashed"

\* Tagged for list options without the tag: every entity is listed
Tagged_All(entities) == entities

\* line 138: the list options select the entities that carry the tag
Tagged(entities) == {e \in entities : ManagedTag \in e.Tags}

\* Orphans without the negation of line 154
Orphans_Inverted(listed, hostNames) ==
    {t \in listed : ArrayContains(hostNames, FirstPart(t.Target, ":"))}

\* lines 152-154: the targets whose host is not among the hostnames
Orphans(listed, hostNames) ==
    {t \in listed : ~ArrayContains(hostNames, FirstPart(t.Target, ":"))}

\* line 155: Targets.Delete addresses the target by upstream and target string
DeleteTargets(tgts, gone) ==
    {t \in tgts : ~\E g \in gone : g.Upstream = t.Upstream /\ g.Target = t.Target}

\* lines 131-136: the containers are listed and inspected for their hostnames
ReverseSearch ==
    /\ pc = "reverse"
    /\ \E ok \in BOOLEAN :
        LET containers == IF ok THEN AllContainers ELSE <<>>
            listed == Append(log, Call("reverse-list", "", ok))
        IN  \/ /\ Outcome(ok)
               /\ containerHostNames' = HostNames(containers)
               /\ log' = listed
               /\ pc' = "upstreams"
            \/ \E i \in 1..Len(containers) :
                /\ Failing(1)
                /\ containerHostNames' = HostNames(SubSeq(containers, 1, i - 1))
                /\ log' = Append(listed, Call("reverse-inspect", containers[i], FALSE))
                /\ pc' = AfterReverseInspectError
    /\ UNCHANGED <<runtime, gateway, pending, ticks, changes, queue, upstreamQueue,
                   deleted, failedAt>>

\* lines 137-143: the tagged upstreams are listed
ListUpstreams ==
    /\ pc = "upstreams"
    /\ \E ok \in BOOLEAN :
        /\ Outcome(ok)
        /\ upstreamQueue' = IF ok THEN SetToSeq(Tagged(upstreams)) ELSE <<>>
        /\ log' = Append(log, Call("upstreams", "", ok))
        /\ failedAt' = IF ok THEN failedAt ELSE ticks
        /\ pc' = IF upstreamQueue' = <<>> THEN "wait" ELSE "targets"
    /\ UNCHANGED <<runtime, gateway, pending, ticks, changes, queue,
                   containerHostNames, deleted>>

\* lines 147-151: the tagged targets of the upstream as Targets.List returns
\* them; with an error it returns none
ListedTargets(tgts, name, ok) ==
    IF ok THEN {t \in Tagged(tgts) : t.Upstream = name} ELSE {}

\* lines 144-161: one upstream of the range loop
ReapUpstream ==
    /\ pc = "targets"
    /\ upstreamQueue # <<>>
    /\ LET upstream == Head(upstreamQueue)
       IN  \E ok \in BOOLEAN :
            LET listed == ListedTargets(targets, upstream.Name, ok)
                orphans == Orphans(listed, containerHostNames)
            IN  \E failing \in SUBSET orphans :
                 /\ Failing((IF ok THEN 0 ELSE 1) + Cardinality(failing))
                 /\ targets' = DeleteTargets(targets, orphans \ failing)
                 /\ deleted' = deleted \cup (orphans \ failing)
                 /\ failedAt' = IF ok THEN failedAt ELSE ticks
                 /\ log' = log \o <<Call("targets", upstream.Name, ok)>>
                               \o (IF orphans = {} THEN <<>>
                                   ELSE <<Call("delete", upstream.Name, failing = {})>>)
    /\ upstreamQueue' = Tail(upstreamQueue)
    /\ pc' = IF upstreamQueue' = <<>> THEN "wait" ELSE "targets"
    /\ UNCHANGED <<runtime, plugins, services, routes, upstreams, pending, ticks,
                   changes, queue, containerHostNames>>

(* -------------------- the operators of the runtime -------------------- *)

\* the operators change the runtime between two passes of main
Changeable ==
    /\ pc = "wait"
    /\ 0 < ticks
    /\ ticks < MaxTicks
    /\ changes < MaxEnvChanges

\* what a change of the runtime leaves alone; the history is of the runtime as
\* it is, and starts anew
Changed ==
    /\ changes' = changes + 1
    /\ log' = <<>>
    /\ deleted' = {}
    /\ UNCHANGED <<gateway, pc, pending, ticks, failures, local, failedAt>>

\* the containers the operators start with and create: the first container with
\* every status and health when its marker label is true, the second in four
\* conditions
InitSlots(id) ==
    IF id = "c1"
    THEN {<<>>} \cup
         {<<info>> : info \in
            {i \in ContainerJSON :
                \/ Label(i.Labels, MarkerLabel) = "true"
                \/ i.Status = "running" /\ i.Health = <<"healthy">>
                \/ i.Status = "exited" /\ i.Health = <<>>}}
    ELSE {<<>>,
          <<[Labels |-> FullLabels("true"), Status |-> "running", Health |-> <<"healthy">>]>>,
          <<[Labels |-> FullLabels("true"), Status |-> "exited", Health |-> <<>>]>>,
          <<[Labels |-> NoLabels, Status |-> "running", Health |-> <<>>]>>}

\* a container is created
Run ==
    /\ Changeable
    /\ \E id \in Containers :
        /\ ~Exists(id)
        /\ \E slot \in InitSlots(id) \ {<<>>} :
            /\ slot[1].Status = "running"
            /\ slot[1].Health \in {<<>>, <<"starting">>}
            /\ runtime' = [runtime EXCEPT ![id] = slot]
    /\ Changed

\* a container stops
Stop ==
    /\ Changeable
    /\ \E id \in Containers :
        /\ Exists(id)
        /\ Info(id).Status = "running"
        /\ runtime' = [runtime EXCEPT ![id] = <<[Info(id) EXCEPT !.Status = "exited"]>>]
    /\ Changed

\* a container is deleted
Rm ==
    /\ Changeable
    /\ \E id \in Containers :
        /\ Exists(id)
        /\ runtime' = [runtime EXCEPT ![id] = <<>>]
    /\ Changed

\* the health check of a running container reports another status: healthy
\* or unhealthy
HealthChange ==
    /\ Changeable
    /\ \E id \in Containers, health \in {<<"healthy">>, <<"unhealthy">>} :
        /\ Exists(id)
        /\ Info(id).Status = "running"
        /\ Info(id).Health \notin {<<>>, health}
        /\ runtime' = [runtime EXCEPT ![id] = <<[Info(id) EXCEPT !.Health = health]>>]
    /\ Changed

(* ---------------------------- specification --------------------------- *)

Init ==
    /\ runtime \in {r \in [Containers -> Slots] : \A id \in Containers : r[id] \in InitSlots(id)}
    /\ plugins = <<>>
    /\ services = {}
    /\ routes = {}
    /\ \E g \in InitGateways : upstreams = g[1] /\ targets = g[2]
    /\ pc = "start"
    /\ pending = 0
    /\ ticks = 0
    /\ changes = 0
    /\ failures = 0
    /\ queue = <<>>
    /\ containerHostNames = <<>>
    /\ upstreamQueue = <<>>
    /\ log = <<>>
    /\ deleted = {}
    /\ failedAt = 0

Next ==
    \/ AuthGuardian
    \/ TimerFire
    \/ Tick
    \/ ProcessContainer
    \/ ReverseSearch
    \/ ListUpstreams
    \/ ReapUpstream
    \/ Run
    \/ Stop
    \/ Rm
    \/ HealthChange

Spec == Init /\ [][Next]_vars

\* the watcher starts against a gateway that may hold an instance of the
\* authentication plugin, global or bound to a service; each container is
\* absent or in one of three conditions
InitAuth ==
    /\ runtime \in [Containers -> InitSlots("c2")]
    /\ plugins \in InitPlugins
    /\ services = {}
    /\ routes = {}
    /\ \E g \in InitGateways : upstreams = g[1] /\ targets = g[2]
    /\ pc = "start"
    /\ pending = 0
    /\ ticks = 0
    /\ changes = 0
    /\ failures = 0
    /\ queue = <<>>
    /\ containerHostNames = <<>>
    /\ upstreamQueue = <<>>
    /\ log = <<>>
    /\ deleted = {}
    /\ failedAt = 0

SpecAuth == InitAuth /\ [][Next]_vars

(* ------------------------------- claims ------------------------------- *)

\* main waits for the next tick after a pass, and the runtime is as the pass
\* found it
PassEnded == pc = "wait" /\ log # <<>>

\* the calls hold this call with this outcome
LoggedIn(calls, op, id, ok) ==
    \E i \in 1..Len(calls) : calls[i].op = op /\ calls[i].id = id /\ calls[i].ok = ok

\* the last pass made this call with this outcome
Logged(op, id, ok) == LoggedIn(log, op, id, ok)

\* the last pass made this call
Called(op) == \E i \in 1..Len(log) : log[i].op = op

\* the listing of the service containers of the last pass succeeded
Listed == log # <<>> /\ log[1].op = "list" /\ log[1].ok

\* no call of the last pass failed
Flawless == \A i \in 1..Len(log) : log[i].ok

\* the container exists, its marker label is true and it has the three
\* configuration labels
Configured(id) ==
    /\ Exists(id)
    /\ MarkerLabel \in DOMAIN Info(id).Labels
    /\ Info(id).Labels[MarkerLabel] = "true"
    /\ {NameLabel, UpstreamLabel, PathLabel} \subseteq DOMAIN Info(id).Labels

\* the host portion of a target: the text before the colon
HostOf(t) == FirstPart(t.Target, ":")

\* the gateway has a target for the hostname of the container under the
\* upstream that the labels of the container name
TargetUnderUpstream(id) ==
    \E t \in targets :
        /\ t.Upstream = Info(id).Labels[UpstreamLabel]
        /\ HostOf(t) = Hostname(id)

\* it is not for a failure of a call made for this container that the last
\* pass has not done its work on it
NoOwnFailure(id) ==
    /\ Listed
    /\ ~Logged("inspect", id, FALSE)
    /\ ~Logged("register", id, FALSE)
    /\ ~Logged("remove", id, FALSE)

\* C1: after a pass, every container with marker label true, the three
\* configuration labels, run state running and health none, starting or healthy
\* has a target equal to its hostname under the upstream of its label.  Stated
\* for the passes in which the listing and the calls made for that container
\* did not fail, so that a violation is no transient failure of its own.
C1_RunningHasTarget ==
    PassEnded =>
        \A id \in Containers :
            /\ Configured(id)
            /\ Info(id).Status = "running"
            /\ Info(id).Health \in {<<>>, <<"starting">>, <<"healthy">>}
            /\ NoOwnFailure(id)
            => TargetUnderUpstream(id)

\* C2: after a pass, no target remains for the hostname of a container that is
\* not running or is unhealthy.  Stated for the containers the pass is to
\* deregister (marker label true, the three configuration labels), for the
\* upstream of the label, and for the passes in which the listing and the calls
\* made for that container did not fail.
C2_StoppedHasNoTarget ==
    PassEnded =>
        \A id \in Containers :
            /\ Configured(id)
            /\ Info(id).Status # "running" \/ Info(id).Health = <<"unhealthy">>
            /\ NoOwnFailure(id)
            => ~TargetUnderUpstream(id)

\* C3: no registration is attempted for a container that lacks one of the three
\* configuration labels.
C3_NoPartialRegistration ==
    \A i \in 1..Len(log) :
        log[i].op = "register" =>
            {NameLabel, UpstreamLabel, PathLabel} \subseteq DOMAIN Info(log[i].id).Labels

\* a tagged target under a tagged upstream
Managed(t) ==
    /\ ManagedTag \in t.Tags
    /\ \E u \in upstreams : u.Name = t.Upstream /\ ManagedTag \in u.Tags

\* C4: one pass after a container was deleted from the runtime, no managed
\* target for its hostname is left, whatever containers remain.  Stated for the
\* passes in which no call failed.
C4_DeletedHasNoTarget ==
    PassEnded /\ Flawless =>
        \A id \in Containers :
            ~Exists(id) => ~\E t \in targets : Managed(t) /\ HostOf(t) = Hostname(id)

\* C5: every pass makes the reverse search, whatever the outcome of the
\* per-container pass.
C5_ReverseSearchInEveryTick == PassEnded => Called("reverse-list")

\* C6: when the inspection of a container fails, the containers after it in
\* the listing are still inspected in the same pass.
C6_LaterContainersInspected ==
    PassEnded /\ Listed =>
        \A id \in Range(ServiceContainers) : \E i \in 1..Len(log) :
            log[i].op = "inspect" /\ log[i].id = id

\* C7: no failing call terminates the process.
C7_NeverTerminates == pc # "crashed"

\* a managed target whose host is the hostname of no container of the runtime
Orphan(t) == Managed(t) /\ \A id \in Containers : Exists(id) => HostOf(t) # Hostname(id)

\* the calls that the reverse search makes to the gateway
ReaperCalls == {"upstreams", "targets", "delete"}

\* C8 as claimed: after a pass that made the reverse search, no managed target
\* is left whose host is the hostname of no container.
C8_NoOrphanAfterReverseSearch ==
    PassEnded /\ Called("reverse-list") => ~\E t \in targets : Orphan(t)

\* C8: after a pass whose reverse search listed the upstreams, listed their
\* targets and deleted without a failing call, no managed target is left whose
\* host is the hostname of no container.
C8_OrphansReaped ==
    /\ PassEnded
    /\ Called("upstreams")
    /\ \A i \in 1..Len(log) : log[i].op \in ReaperCalls => log[i].ok
    => ~\E t \in targets : Orphan(t)

\* a pass without a failing call has deleted the target of a container that
\* does not exist, and left none
C8_Witness ==
    /\ PassEnded
    /\ Flawless
    /\ \E t \in deleted : \A id \in Containers : Exists(id) => HostOf(t) # Hostname(id)
    /\ ~\E t \in targets : Orphan(t)

\* the classification table: run state and health state to action
TableAction(status, health) ==
    IF status # "running" THEN "remove"
    ELSE CASE health = <<>> -> "register"
           [] health = <<"unhealthy">> -> "remove"
           [] health \in {<<"starting">>, <<"healthy">>} -> "register"
           [] OTHER -> "register"

\* C9: the call made for a container is the one the classification table gives
\* for its run state and health state, and every inspected container with marker
\* label true and the three configuration labels gets that call.
C9_ActionFollowsTable ==
    \A i \in 1..Len(log) :
        /\ log[i].op \in {"register", "remove"} =>
            log[i].op = TableAction(Info(log[i].id).Status, Info(log[i].id).Health)
        /\ log[i].op = "inspect" /\ log[i].ok /\ Configured(log[i].id) =>
            /\ i < Len(log)
            /\ log[i + 1].id = log[i].id
            /\ log[i + 1].op = TableAction(Info(log[i].id).Status, Info(log[i].id).Health)

\* in one pass a running container with a health status that is none of the
\* known ones was registered, and a running unhealthy one removed
C9_Witness ==
    /\ \E i \in 1..Len(log) :
        /\ log[i].op = "register"
        /\ Info(log[i].id).Status = "running"
        /\ Info(log[i].id).Health = <<"degraded">>
    /\ \E i \in 1..Len(log) :
        /\ log[i].op = "remove"
        /\ Info(log[i].id).Status = "running"
        /\ Info(log[i].id).Health = <<"unhealthy">>

\* the marker label of the container is false, missing or no boolean
Unmarked(rt, id) ==
    /\ rt[id] # <<>>
    /\ \/ MarkerLabel \notin DOMAIN rt[id][1].Labels
       \/ rt[id][1].Labels[MarkerLabel] \notin {"1", "t", "T", "TRUE", "true", "True"}

\* C10: a container whose marker label is false, missing or no boolean is
\* skipped in every tick: no register and no remove call is made for it, and the
\* step of the per-container pass that takes it leaves the gateway as it is.
C10_UnmarkedSkipped ==
    [][/\ \A id \in Containers : \A i \in 1..Len(log') :
            Unmarked(runtime', id) /\ log'[i].id = id => log'[i].op \notin {"register", "remove"}
       /\ pc = "containers" /\ Unmarked(runtime, Head(queue)) =>
            /\ gateway' = gateway
            /\ queue' # queue =>
                \/ LoggedIn(log', "inspect", Head(queue), FALSE)
                \/ LoggedIn(log', "skip", Head(queue), TRUE)]_vars

\* in its second pass main has skipped a container whose marker label is no
\* boolean
C10_Witness ==
    /\ ticks = 2
    /\ Unmarked(runtime, "c1")
    /\ Info("c1").Labels = FullLabels("yes")
    /\ Logged("skip", "c1", TRUE)

\* the gateway after utils.RegisterContainer has succeeded for the container
Registered(gw, id) ==
    LET cfg == GatewayConfiguration(Info(id).Labels)
    IN  <<gw[1],
          RegisterServices(gw[2], cfg),
          RegisterRoutes(gw[3], cfg),
          RegisterUpstreams(gw[4], cfg),
          RegisterTargets(gw[5], cfg, Hostname(id))>>

\* no two upstreams have one name, and no two targets of one upstream have one
\* target string
NoDuplicate(gw) ==
    /\ \A u, v \in gw[4] : u.Name = v.Name => u = v
    /\ \A t, u \in gw[5] : t.Upstream = u.Upstream /\ t.Target = u.Target => t = u

HasTarget(id) ==
    \E t \in targets :
        /\ t.Upstream = Label(Info(id).Labels, UpstreamLabel)
        /\ t.Target = TargetOf(Hostname(id))

\* C12: the step of the per-container pass that deregisters a container whose
\* target is absent leaves the gateway as it is, whatever the outcome of the
\* call, and the pass goes on with the next container of the listing or, after
\* the last, with the reverse search.
C12_DeregisterIdempotent ==
    [][/\ pc = "containers"
       /\ queue # <<>>
       /\ Exists(Head(queue))
       /\ ~HasTarget(Head(queue))
       /\ \E ok \in BOOLEAN : LoggedIn(log', "remove", Head(queue), ok)
       => /\ gateway' = gateway
          /\ queue' = Tail(queue)
          /\ pc' = IF Tail(queue) = <<>> THEN "reverse" ELSE "containers"
          /\ pc' = "containers" => ENABLED ProcessContainer]_vars

\* the second of two passes has deregistered a stopped container that the first
\* pass had deregistered, and then registered the container after it; the
\* target of another host under the upstream is as it was
C12_Witness ==
    /\ PassEnded
    /\ ticks = 2
    /\ changes = 0
    /\ failures = 0
    /\ Exists("c1")
    /\ Exists("c2")
    /\ Info("c1").Status = "exited"
    /\ \E i \in 1..Len(log) :
        /\ log[i].op = "remove" /\ log[i].id = "c1" /\ log[i].ok
        /\ \E j \in i + 1..Len(log) : log[j].op = "register" /\ log[j].id = "c2" /\ log[j].ok
    /\ ~HasTarget("c1")
    /\ HasTarget("c2")

\* main is in a pass: between taking a tick and waiting for the next
InPass == pc \in {"containers", "reverse", "upstreams", "targets"}

\* C13: main takes a tick only while it waits, that is after the pass of the
\* tick before has ended, and then takes one tick; while a pass is in flight
\* no tick is taken, and the ticks that the ticker sends meanwhile leave at
\* most one tick in the channel.
C13_OnePassOneTrigger ==
    [][/\ ticks' # ticks =>
            /\ pc = "wait"
            /\ ticks' = ticks + 1
            /\ pending' = pending - 1
       /\ InPass => ticks' = ticks
       /\ pending' <= 1]_vars

\* a pass is in flight, with a container yet to take, and a tick that the
\* ticker has sent meanwhile is in the channel: one more tick would be dropped
C13_Witness ==
    /\ pc = "containers"
    /\ queue # <<>>
    /\ ticks = 1
    /\ pending = 1
    /\ Sent(pending) = pending

\* the instances of the authentication plugin that are bound to no service
\* and no route
GlobalInstances ==
    {i \in 1..Len(plugins) :
        /\ plugins[i].Name = AuthPluginName
        /\ plugins[i].Service = <<>>
        /\ plugins[i].Route = <<>>}

\* C14: after startup the gateway holds at most one global instance of the
\* authentication plugin, whatever the outcome of the listing of the plugins.
C14_AtMostOneGlobalPlugin == pc # "start" => Cardinality(GlobalInstances) <= 1

\* C15: the step of startup ends in the wait for the first tick whether or not
\* the creation of the plugin succeeds, and a watcher that waits with a tick in
\* the channel takes it, whatever plugins the gateway holds.
C15_StartupNeverAborted ==
    /\ [][pc = "start" => pc' = "wait"]_vars
    /\ [](pc = "wait" /\ pending > 0 => ENABLED Tick)

\* the creation of the plugin has failed at startup, the gateway holds no global
\* instance, and main has made a pass up to the listing of the upstreams
C15_Witness ==
    /\ PassEnded
    /\ failures = 1
    /\ GlobalInstances = {}
    /\ Called("upstreams")

\* the host of the target is the hostname of a container of the runtime
HostExists(t) == \E id \in Containers : Exists(id) /\ HostOf(t) = Hostname(id)

\* C16: in every tick, whatever call fails, the reverse search deletes no
\* target whose host is the hostname of a container that exists in the
\* runtime.
C16_ExistingHostNeverReaped == \A t \in deleted : ~HostExists(t)

\* C17: a step of the reverse search creates and modifies nothing: it leaves
\* the plugins, services, routes and upstreams as they are, adds no target, and
\* the targets it deletes carry the tag and sit under an upstream that carries
\* the tag.
C17_ReaperLeavesUnmanaged ==
    [][/\ pc \in {"reverse", "upstreams", "targets"} =>
            /\ UNCHANGED <<plugins, services, routes, upstreams>>
            /\ targets' \subseteq targets
            /\ \A t \in targets : t \notin targets' => Managed(t)]_vars

\* a reverse search has deleted a target, and has left a target of a host
\* without container that is not managed: it has no tag, or its upstream has
\* none
C17_Witness ==
    /\ PassEnded
    /\ deleted # {}
    /\ \E t \in targets : ~Managed(t) /\ ~HostExists(t)

\* the pass that has ended is the one after the pass in which a listing of the
\* reverse search failed
AfterFailedListing == PassEnded /\ failedAt > 0 /\ ticks = failedAt + 1

\* C18: a pass in which the listing of the upstreams failed has deleted no
\* target; a pass in which the listing of the targets of an upstream failed has
\* deleted no target of that upstream; and the pass after such a pass makes
\* the reverse search again.
C18_FailedListingDeletesNothing ==
    /\ Logged("upstreams", "", FALSE) => deleted = {}
    /\ \A u \in upstreams :
        Logged("targets", u.Name, FALSE) => \A t \in deleted : t.Upstream # u.Name
    /\ AfterFailedListing => Called("reverse-list")

\* the targets for the hostname of the container under the upstream of its label
TargetsOf(id) ==
    {t \in targets :
        /\ t.Upstream = Label(Info(id).Labels, UpstreamLabel)
        /\ HostOf(t) = Hostname(id)}

\* the steady state: every running, not-unhealthy container with marker label
\* true and the three configuration labels has one target under its upstream,
\* and the host of every managed target is the hostname of a container
Steady ==
    /\ \A id \in Containers :
        /\ Configured(id)
        /\ Info(id).Status = "running"
        /\ Info(id).Health # <<"unhealthy">>
        => Cardinality(TargetsOf(id)) = 1
    /\ \A t \in targets : Managed(t) => HostExists(t)

\* no call that failed in the pass was made again in the same pass
NoRetryInPass ==
    \A i, j \in 1..Len(log) :
        i < j /\ ~log[i].ok => ~(log[j].op = log[i].op /\ log[j].id = log[i].id)

\* C19: when the runtime has never changed and no call has ever failed, the
\* last pass of the run ends in the steady state: the gateway has converged
\* within the passes of the run; and no pass makes a failed call a second time.
C19_ConvergesOnNextTick ==
    /\ PassEnded /\ ticks = MaxTicks /\ changes = 0 /\ failures = 0 => Steady
    /\ NoRetryInPass

====
